---- MODULE Spec2Model ----
(***************************************************************************)
(* bevy_post_process: PostProcessPlugin<U, R> (src/src/lib.rs).            *)
(*                                                                         *)
(* The model follows an App through its life: plugins are added (build),   *)
(* the app is run (finish of every plugin, in order), and then frames are  *)
(* rendered: for every view the Core3d render graph is executed node by    *)
(* node in an order that respects the graph's edges, and the plugin's      *)
(* PipelineNode::run is executed by its ViewNodeRunner for every view that *)
(* matches the node's ViewQuery.                                           *)
(***************************************************************************)
EXTENDS Integers, Sequences, FiniteSets, TLC

\* How many PostProcessPlugin instances the application may try to add.
MaxPlugins == 2

\* Option<T>: None is the empty sequence, Some(x) the one-element sequence.
None == <<>>
Some(x) == <<x>>

\* The app has not panicked.
NoPanic == "no"

(***************************************************************************)
(* Types and constructor parameters                                        *)
(***************************************************************************)
\* The settings component types U the application defines.
UTypes == {"U1", "U2"}

\* Render labels (values); "R1::A" and "R1::B" are two values of one label
\* type R1 (an enum deriving RenderLabel), "R2" is the unit struct R2.
Labels == {"R1::A", "R1::B", "R2"}

RTypeOf(label) == IF label = "R2" THEN "R2" ELSE "R1"

\* The other arguments of PostProcessPlugin::new.
CtorArgs ==
    { [shader_path |-> "shaders/a.wgsl", debug_label |-> Some("a_pipeline"),
       bind_group_layout_label |-> "a_bind_group_layout", vertex_state |-> "vs_a"],
      [shader_path |-> "shaders/b.wgsl", debug_label |-> None,
       bind_group_layout_label |-> "b_bind_group_layout", vertex_state |-> "vs_b"] }

\* PostProcessPlugin::new: the PostProcessPluginSettings<U, R> of the instance.
PostProcessPluginNew(U, label, args) ==
    [U |-> U,
     shader_path |-> args.shader_path,
     label |-> label,
     debug_label |-> args.debug_label,
     bind_group_layout_label |-> args.bind_group_layout_label,
     vertex_state |-> args.vertex_state]

\* Resources are stored per Rust type: PostProcessPluginSettings<U, R> and
\* PostProcessPipeline<U, R> are keyed by the pair of type parameters.
ResKeys == UTypes \X {"R1", "R2"}

ResKey(s) == <<s.U, RTypeOf(s.label)>>

(***************************************************************************)
(* The views (cameras) of the scene and the components they carry          *)
(***************************************************************************)
Views == {"v1", "v2"}

\* The settings components on each camera: v1 and v2 both carry U1 (two
\* cameras with distinct values of one settings type), v2 also carries U2,
\* so v1 is a camera without the U2 settings.
SettingsOf(v) == IF v = "v1" THEN {"U1"} ELSE {"U1", "U2"}

ViewPos(v) == IF v = "v1" THEN 0 ELSE 1

\* No view is being rendered.
NoView == "-"

\* The host's nodes of the Core3d graph the plugin orders itself against, and
\* one host post-processing node that lives between them.
HostNodes == {"EndMainPass", "Tonemapping", "EndMainPassPostProcessing"}

HostEdges == { <<"EndMainPass", "Tonemapping">>,
               <<"Tonemapping", "EndMainPassPostProcessing">> }

VARIABLES
    renderApp,        \* whether the app has the RenderApp sub-app
    phase,            \* "startup" | "finish" | "render"
    panicked,         \* NoPanic, or the cause of the panic that ended the app
    mainPlugins,      \* the plugin types registered in the main app
    plugins,          \* the PostProcessPlugin instances added, in order
    finished,         \* how many of them have had finish() called
    graphNodes,       \* Core3d graph: label -> <<U, R>> of its PipelineNode, or None
    graphEdges,       \* Core3d graph: node edges
    resSettings,      \* render world: PostProcessPluginSettings<U, R> resources
    resPipeline,      \* render world: PostProcessPipeline<U, R> resources
    pipelineCache,    \* PipelineCache: the queued render pipeline descriptors
    compiled,         \* PipelineCache: ids whose pipeline is compiled
    layouts,          \* RenderDevice: bind group layouts created
    samplers,         \* RenderDevice: number of samplers created
    settingsBinding,  \* ComponentUniforms<U>: whether the buffer has a binding
    viewBinding,      \* ViewUniforms: whether the buffer has a binding
    stage,            \* "idle" before the first frame, "graph" afterwards
    dynIndex,         \* DynamicUniformIndex<U> of each view, this frame
    viewOffset,       \* ViewUniformOffset of each view, this frame
    mainTexture,      \* ViewTarget.main_texture of curView's target (0: a, 1: b)
    viewsDone,        \* the views whose graph run is over, this frame
    curView,          \* the view whose graph is being run, or NoView
    executed,         \* the nodes run for curView, in order
    cmds,             \* the GPU commands and texture flips recorded for curView
    lastRun,          \* Some(record of the PipelineNode::run just executed)
    skipped           \* the labels whose node has skipped a view in some frame

vars == <<renderApp, phase, panicked, mainPlugins, plugins, finished,
          graphNodes, graphEdges, resSettings, resPipeline, pipelineCache,
          compiled, layouts, samplers, settingsBinding, viewBinding, stage,
          dynIndex, viewOffset, mainTexture, viewsDone, curView, executed,
          cmds, lastRun, skipped>>

appVars   == <<renderApp, mainPlugins, plugins, finished, graphNodes, graphEdges>>
resVars   == <<resSettings, resPipeline, pipelineCache, layouts, samplers>>
readyVars == <<compiled, settingsBinding, viewBinding>>
frameVars == <<stage, dynIndex, viewOffset, mainTexture, viewsDone, curView,
               executed, cmds, lastRun, skipped>>

Range(s) == { s[i] : i \in 1..Len(s) }

(***************************************************************************)
(* Host services used by build and finish                                  *)
(***************************************************************************)
\* The plugin types build() adds for the settings type U (lines 62-74).
InnerPlugins(U) ==
    { <<"ExtractComponentPlugin", U, "-">>, <<"UniformComponentPlugin", U, "-">> }

\* App::add_plugins: adding a plugin type that is already registered panics.
AddPluginsOutcome(registered, names) ==
    IF names \cap registered # {} THEN "panic" ELSE "ok"

\* What build and finish do when the RenderApp sub-app is missing, had the
\* lookup been unwrapped instead of matched.
SubAppStepUnwrap(has) == IF has THEN "proceed" ELSE "panic"

\* let Some(render_app) = app.get_sub_app_mut(RenderApp) else { return; };
SubAppStep(has) == IF has THEN "proceed" ELSE "return"

\* The ordering tuple cut short: the node is only placed after the main pass.
PluginEdgesAfterOnly(label) == { <<"EndMainPass", label>> }

\* add_render_graph_edges(Core3d, (EndMainPass, label, EndMainPassPostProcessing)):
\* one edge per adjacent pair of the tuple.
PluginEdges(label) ==
    { <<"EndMainPass", label>>, <<label, "EndMainPassPostProcessing">> }

\* A cache that queues the descriptor twice.
queue_render_pipeline_twice(cache, desc) == Append(Append(cache, desc), desc)

\* PipelineCache::queue_render_pipeline: the descriptor is appended to the
\* cache; its id is its position.
queue_render_pipeline(cache, desc) == Append(cache, desc)

\* The bind group layout entries declared by from_world, in slot order.
LayoutEntries == <<"texture_2d", "sampler", "uniform_buffer<U>", "uniform_buffer<ViewUniform>">>

\* PostProcessPipeline::from_world, on the render world's resources.
PipelineFromWorld(key, settingsRes, cache, lays, samps) ==
    IF settingsRes = None
    THEN [panic |-> TRUE]
    ELSE LET plugin_settings == settingsRes[1]
             layout  == [id |-> Len(lays) + 1,
                         label |-> plugin_settings.bind_group_layout_label,
                         visibility |-> "VERTEX_FRAGMENT",
                         entries |-> LayoutEntries]
             sampler == [id |-> samps + 1, descriptor |-> "default"]
             shader  == [asset |-> plugin_settings.shader_path]
             desc    == [key |-> key,
                         label |-> plugin_settings.debug_label,
                         layout |-> <<layout>>,
                         vertex |-> plugin_settings.vertex_state,
                         fragment |-> [shader |-> shader, entry_point |-> "fragment"]]
             cache2  == queue_render_pipeline(cache, desc)
         IN [panic |-> FALSE,
             layouts |-> Append(lays, layout),
             samplers |-> samps + 1,
             cache |-> cache2,
             resource |-> [layout |-> layout, sampler |-> sampler,
                           pipeline_id |-> Len(cache2)]]

(***************************************************************************)
(* Initial state: a fresh App, with or without the render sub-app          *)
(***************************************************************************)
Init ==
    /\ renderApp \in BOOLEAN
    /\ phase = "startup"
    /\ panicked = NoPanic
    /\ mainPlugins = {}
    /\ plugins = <<>>
    /\ finished = 0
    /\ graphNodes = [l \in Labels |-> None]
    /\ graphEdges = HostEdges
    /\ resSettings = [k \in ResKeys |-> None]
    /\ resPipeline = [k \in ResKeys |-> None]
    /\ pipelineCache = <<>>
    /\ compiled = {}
    /\ layouts = <<>>
    /\ samplers = 0
    /\ settingsBinding = [U \in UTypes |-> FALSE]
    /\ viewBinding = FALSE
    /\ stage = "idle"
    /\ dynIndex = [v \in Views |-> [U \in UTypes |-> None]]
    /\ viewOffset = [v \in Views |-> None]
    /\ mainTexture = 0
    /\ viewsDone = {}
    /\ curView = NoView
    /\ executed = <<>>
    /\ cmds = <<>>
    /\ lastRun = None
    /\ skipped = {}

(***************************************************************************)
(* App::add_plugins(PostProcessPlugin::new(..)) and Plugin::build          *)
(***************************************************************************)
AddPlugin(U, label, args) ==
    LET s    == PostProcessPluginNew(U, label, args)
        self == { <<"PostProcessPlugin", U, RTypeOf(label)>> }
    IN
    /\ phase = "startup"
    /\ panicked = NoPanic
    /\ Len(plugins) < MaxPlugins
    /\ plugins' = Append(plugins, s)
    /\ IF AddPluginsOutcome(mainPlugins, self) = "panic"
       THEN /\ panicked' = "duplicate plugin"
            /\ UNCHANGED <<mainPlugins, graphNodes, graphEdges>>
       ELSE \* build(): lines 61-111
            IF AddPluginsOutcome(mainPlugins \cup self, InnerPlugins(U)) = "panic"
            THEN /\ panicked' = "duplicate plugin"
                 /\ mainPlugins' = mainPlugins \cup self
                 /\ UNCHANGED <<graphNodes, graphEdges>>
            ELSE /\ mainPlugins' = mainPlugins \cup self \cup InnerPlugins(U)
                 /\ CASE SubAppStep(renderApp) = "return" ->
                           UNCHANGED <<panicked, graphNodes, graphEdges>>
                      [] SubAppStep(renderApp) = "panic" ->
                           /\ panicked' = "missing sub-app"
                           /\ UNCHANGED <<graphNodes, graphEdges>>
                      [] OTHER ->
                           /\ graphNodes' = [graphNodes EXCEPT ![label] = ResKey(s)]
                           /\ graphEdges' = graphEdges \cup PluginEdges(label)
                           /\ UNCHANGED panicked
    /\ UNCHANGED <<renderApp, phase, finished>>
    /\ UNCHANGED <<resVars, readyVars, frameVars>>

\* App::run: no more plugins are added; the plugins are finished in order.
Run ==
    /\ phase = "startup"
    /\ panicked = NoPanic
    /\ phase' = "finish"
    /\ UNCHANGED <<panicked, appVars, resVars, readyVars, frameVars>>

(***************************************************************************)
(* Plugin::finish of the next plugin                                       *)
(***************************************************************************)
Finish ==
    /\ phase = "finish"
    /\ panicked = NoPanic
    /\ finished < Len(plugins)
    /\ finished' = finished + 1
    /\ LET s   == plugins[finished + 1]
           key == ResKey(s)
       IN CASE SubAppStep(renderApp) = "return" ->
                 UNCHANGED <<panicked, resVars>>
            [] SubAppStep(renderApp) = "panic" ->
                 /\ panicked' = "missing sub-app"
                 /\ UNCHANGED resVars
            [] OTHER ->
                 \* insert_resource: replaces the resource of that type
                 /\ resSettings' = [resSettings EXCEPT ![key] = Some(s)]
                 \* init_resource: from_world only when the resource is absent
                 /\ IF resPipeline[key] # None
                    THEN UNCHANGED <<panicked, resPipeline, pipelineCache, layouts, samplers>>
                    ELSE LET r == PipelineFromWorld(key, resSettings'[key],
                                                    pipelineCache, layouts, samplers)
                         IN IF r.panic
                            THEN /\ panicked' = "unwrap on None"
                                 /\ UNCHANGED <<resPipeline, pipelineCache, layouts, samplers>>
                            ELSE /\ resPipeline' = [resPipeline EXCEPT ![key] = Some(r.resource)]
                                 /\ pipelineCache' = r.cache
                                 /\ layouts' = r.layouts
                                 /\ samplers' = r.samplers
                                 /\ UNCHANGED panicked
    /\ UNCHANGED <<renderApp, phase, mainPlugins, plugins, graphNodes, graphEdges>>
    /\ UNCHANGED <<readyVars, frameVars>>

\* All plugins are finished: the app starts rendering frames.
StartRendering ==
    /\ phase = "finish"
    /\ panicked = NoPanic
    /\ finished = Len(plugins)
    /\ phase' = "render"
    /\ UNCHANGED <<panicked, appVars, resVars, readyVars, frameVars>>

(***************************************************************************)
(* Host state the node reads: pipeline cache, uniform buffers, view target *)
(***************************************************************************)
\* A lookup that hands out the pipeline whether or not it is compiled.
get_render_pipeline_any(id) == Some([id |-> id, descriptor |-> pipelineCache[id]])

\* PipelineCache::get_render_pipeline: Some only once the pipeline is compiled.
get_render_pipeline(id) ==
    IF id \in compiled THEN Some([id |-> id, descriptor |-> pipelineCache[id]]) ELSE None

\* ComponentUniforms<U>::uniforms().binding()
settings_uniforms_binding(U) ==
    IF settingsBinding[U] THEN Some([buffer |-> "ComponentUniforms", of |-> U]) ELSE None

\* ViewUniforms.uniforms.binding()
view_uniforms_binding ==
    IF viewBinding THEN Some([buffer |-> "ViewUniforms", of |-> "ViewUniform"]) ELSE None

\* The two main textures of a view's target.
TextureA(v) == <<v, "a">>
TextureB(v) == <<v, "b">>

\* ViewTarget::main_texture: the view's current texture.
MainTextureOf(v, m) == IF m = 0 THEN TextureA(v) ELSE TextureB(v)

\* A post-process write that hands out the textures without flipping.
post_process_write_noflip(v, m) ==
    [source |-> MainTextureOf(v, m), destination |-> MainTextureOf(v, 1 - m), main |-> m]

\* ViewTarget::post_process_write: source is the current main texture,
\* destination the other one, and the main texture flips to destination.
post_process_write(v, m) ==
    [source |-> MainTextureOf(v, m), destination |-> MainTextureOf(v, 1 - m), main |-> 1 - m]

\* The view's components as the ViewQuery delivers them, or None when the
\* view does not match the query (lines 161-169).
ViewQueryItem(v, U) ==
    IF U \in SettingsOf(v) /\ dynIndex[v][U] # None /\ viewOffset[v] # None
    THEN Some([view_target |-> v,
               settings |-> <<U, v>>,
               view_uniform_offset |-> viewOffset[v][1],
               settings_index |-> dynIndex[v][U][1]])
    ELSE None

(***************************************************************************)
(* PipelineNode::run                                                       *)
(***************************************************************************)
\* The readiness checks with the view binding unwrapped instead of matched.
RunPathUnwrapView(pipeline, settings_binding, view_binding) ==
    IF pipeline = None THEN "skip"
    ELSE IF settings_binding = None THEN "skip"
    ELSE IF view_binding = None THEN "panic"
    ELSE "draw"

\* The three let-else checks of run (lines 199-215), in order.
RunPath(pipeline, settings_binding, view_binding) ==
    IF pipeline = None THEN "skip"
    ELSE IF settings_binding = None THEN "skip"
    ELSE IF view_binding = None THEN "skip"
    ELSE "draw"

\* The post-process write started before the readiness checks.
StartWriteAlways(path) == TRUE

\* post_process_write is called only after all three checks passed (line 224).
StartWrite(path) == path = "draw"

\* The dynamic offsets in the wrong order.
DynamicOffsetsSwapped(item) == <<item.view_uniform_offset, item.settings_index>>

\* &[settings_index.index(), view_uniform_offset.offset] (line 276)
DynamicOffsets(item) == <<item.settings_index, item.view_uniform_offset>>

\* A draw of two triangles' worth of vertices.
DrawCommandSix == [op |-> "draw", vertices |-> <<0, 6>>, instances |-> <<0, 1>>]

\* render_pass.draw(0..3, 0..1) (line 278)
DrawCommand == [op |-> "draw", vertices |-> <<0, 3>>, instances |-> <<0, 1>>]

\* run(), lines 178-281: the result, the commands recorded and the view
\* target's main texture afterwards.
NodeRun(key, item) ==
    LET v  == item.view_target
        m  == mainTexture
    IN
    IF resPipeline[key] = None
    THEN [result |-> "Panic", path |-> "panic", cmds |-> <<>>, main |-> m, write |-> None]
    ELSE
    LET post_process_pipeline == resPipeline[key][1]
        pipeline         == get_render_pipeline(post_process_pipeline.pipeline_id)
        settings_binding == settings_uniforms_binding(key[1])
        view_binding     == view_uniforms_binding
        path             == RunPath(pipeline, settings_binding, view_binding)
        write            == IF StartWrite(path) THEN Some(post_process_write(v, m)) ELSE None
        after            == IF write = None THEN m ELSE write[1].main
    IN
    IF path = "panic"
    THEN [result |-> "Panic", path |-> path, cmds |-> <<>>, main |-> after, write |-> write]
    ELSE IF path = "skip"
    THEN [result |-> "Ok", path |-> path, cmds |-> <<>>, main |-> after, write |-> write]
    ELSE IF resSettings[key] = None
    THEN [result |-> "Panic", path |-> "panic", cmds |-> <<>>, main |-> after, write |-> write]
    ELSE
    LET plugin_settings == resSettings[key][1]
        post_process    == write[1]
    IN
    [result |-> "Ok",
     path   |-> path,
     main   |-> after,
     write  |-> write,
     cmds   |->
        << [op |-> "create_bind_group",
            label |-> plugin_settings.bind_group_layout_label,
            layout |-> post_process_pipeline.layout,
            entries |-> <<post_process.source, post_process_pipeline.sampler,
                          settings_binding[1], view_binding[1]>>],
           [op |-> "begin_render_pass",
            label |-> plugin_settings.debug_label,
            view |-> post_process.destination,
            ops |-> "default"],
           [op |-> "set_render_pipeline", pipeline |-> pipeline[1]],
           [op |-> "set_bind_group", index |-> 0,
            offsets |-> DynamicOffsets(item)],
           DrawCommand >>]

(***************************************************************************)
(* The render world between and during frames                              *)
(***************************************************************************)
\* The render world exists and the app is rendering.
Rendering == phase = "render" /\ renderApp /\ panicked = NoPanic

\* A frame has been prepared and its render graph has not started.
BeforeGraph == Rendering /\ stage = "graph" /\ curView = NoView /\ viewsDone = {}

\* PipelineCache::process_queue: a queued pipeline finishes compiling; from
\* then on get_render_pipeline returns it.
ProcessPipelineQueue(id) ==
    /\ BeforeGraph
    /\ id \in 1..Len(pipelineCache)
    /\ id \notin compiled
    /\ compiled' = compiled \cup {id}
    /\ UNCHANGED <<settingsBinding, viewBinding>>
    /\ UNCHANGED <<phase, panicked, appVars, resVars, frameVars>>

\* UniformComponentPlugin<U>: the ComponentUniforms<U> buffer is written and
\* has a binding from then on.
PrepareUniformComponents(U) ==
    /\ BeforeGraph
    /\ <<"UniformComponentPlugin", U, "-">> \in mainPlugins
    /\ ~settingsBinding[U]
    /\ settingsBinding' = [settingsBinding EXCEPT ![U] = TRUE]
    /\ UNCHANGED <<compiled, viewBinding>>
    /\ UNCHANGED <<phase, panicked, appVars, resVars, frameVars>>

\* The host writes the ViewUniforms buffer, which has a binding from then on.
PrepareViewUniforms ==
    /\ BeforeGraph
    /\ ~viewBinding
    /\ viewBinding' = TRUE
    /\ UNCHANGED <<compiled, settingsBinding>>
    /\ UNCHANGED <<phase, panicked, appVars, resVars, frameVars>>

\* The views that carry the settings component U, and the slot the upload
\* stage gives each of them when it writes them in the order `swap` selects.
ViewsWith(U) == { v \in Views : U \in SettingsOf(v) }

SlotOf(v, among, swap) ==
    LET before == Cardinality({ w \in among : ViewPos(w) < ViewPos(v) })
    IN IF swap THEN Cardinality(among) - 1 - before ELSE before

\* A new frame: extraction and upload give every view its ViewUniformOffset
\* and every camera with settings U its DynamicUniformIndex<U>.
NextFrame ==
    /\ Rendering
    /\ stage = "idle" \/ (curView = NoView /\ viewsDone = Views)
    /\ stage' = "graph"
    /\ \E swap \in BOOLEAN :
          /\ dynIndex' = [v \in Views |-> [U \in UTypes |->
                            IF U \in SettingsOf(v)
                            THEN Some(SlotOf(v, ViewsWith(U), swap)) ELSE None]]
          /\ viewOffset' = [v \in Views |-> Some(2 + SlotOf(v, Views, ~swap))]
    /\ mainTexture' = 0
    /\ viewsDone' = {}
    /\ executed' = <<>>
    /\ cmds' = <<>>
    /\ lastRun' = None
    /\ UNCHANGED <<curView, skipped>>
    /\ UNCHANGED <<phase, panicked, appVars, resVars, readyVars>>

(***************************************************************************)
(* The render graph executor, one view at a time                           *)
(***************************************************************************)
GraphNodeSet == HostNodes \cup { l \in Labels : graphNodes[l] # None }

\* A node runs once per view, after every node it has an edge from.
Runnable(n) ==
    /\ n \in GraphNodeSet
    /\ n \notin Range(executed)
    /\ \A e \in graphEdges : e[2] = n => e[1] \in Range(executed)

ViewComplete == Range(executed) = GraphNodeSet

\* The executor turns to the next view. The view's target was prepared afresh
\* for this frame, with texture a as its main texture.
StartView(v) ==
    /\ Rendering
    /\ stage = "graph"
    /\ curView = NoView
    /\ v \notin viewsDone
    /\ curView' = v
    /\ executed' = <<>>
    /\ cmds' = <<>>
    /\ lastRun' = None
    /\ mainTexture' = 0
    /\ UNCHANGED <<stage, dynIndex, viewOffset, viewsDone, skipped>>
    /\ UNCHANGED <<phase, panicked, appVars, resVars, readyVars>>

\* A host node of the graph. The host's post-processing node between the end
\* of the main pass and the end of post-processing does its own
\* post_process_write when it is enabled for the view.
RunHostNode(n) ==
    /\ Rendering
    /\ curView # NoView
    /\ n \in HostNodes
    /\ Runnable(n)
    /\ executed' = Append(executed, n)
    /\ lastRun' = None
    /\ \/ /\ n = "Tonemapping"
          /\ mainTexture' = post_process_write(curView, mainTexture).main
          /\ cmds' = Append(cmds, [node |-> n, cmd |-> [op |-> "post_process_write"]])
       \/ UNCHANGED <<mainTexture, cmds>>
    /\ UNCHANGED <<stage, dynIndex, viewOffset, viewsDone, curView, skipped>>
    /\ UNCHANGED <<phase, panicked, appVars, resVars, readyVars>>

\* The latest drawing run in the view's log: its source, its destination and
\* whether no other post-process write followed it.
PrevDraw(log) ==
    LET passes == { i \in 1..Len(log) : log[i].cmd.op = "begin_render_pass" }
    IN IF passes = {} THEN None
       ELSE LET i == CHOOSE j \in passes : \A k \in passes : k <= j
            IN Some([source |-> log[i - 1].cmd.entries[1],
                     destination |-> log[i].cmd.view,
                     adjacent |-> \A k \in (i + 1)..Len(log) :
                                      log[k].cmd.op # "post_process_write"])

\* ViewNodeRunner<PipelineNode<U, R>>: runs the node for the view when the
\* view matches the ViewQuery, and does nothing otherwise.
RunPluginNode(l) ==
    /\ Rendering
    /\ curView # NoView
    /\ l \in Labels
    /\ Runnable(l)
    /\ executed' = Append(executed, l)
    /\ LET v    == curView
           key  == graphNodes[l]
           item == ViewQueryItem(v, key[1])
       IN IF item = None
          THEN /\ lastRun' = None
               /\ UNCHANGED <<panicked, mainTexture, cmds, skipped>>
          ELSE LET r == NodeRun(key, item[1])
               IN /\ mainTexture' = r.main
                  /\ cmds' = cmds \o [i \in 1..Len(r.cmds) |-> [node |-> l, cmd |-> r.cmds[i]]]
                  /\ panicked' = IF r.result = "Panic" THEN "panic in run" ELSE panicked
                  /\ skipped' = IF r.path = "skip" THEN skipped \cup {l} ELSE skipped
                  /\ lastRun' = Some(
                        [label |-> l, view |-> v, key |-> key,
                         pipelineReady |-> /\ resPipeline[key] # None
                                           /\ resPipeline[key][1].pipeline_id \in compiled,
                         settingsReady |-> settingsBinding[key[1]],
                         viewReady |-> viewBinding,
                         preMain |-> MainTextureOf(v, mainTexture),
                         preDest |-> MainTextureOf(v, 1 - mainTexture),
                         postMain |-> MainTextureOf(v, r.main),
                         index |-> dynIndex[v][key[1]],
                         offset |-> viewOffset[v],
                         prev |-> PrevDraw(cmds),
                         hadSkipped |-> l \in skipped,
                         result |-> r.result,
                         path |-> r.path,
                         cmds |-> r.cmds])
    /\ UNCHANGED <<stage, dynIndex, viewOffset, viewsDone, curView>>
    /\ UNCHANGED <<phase, appVars, resVars, readyVars>>

\* Every node of the graph has run for the view.
FinishView ==
    /\ Rendering
    /\ curView # NoView
    /\ ViewComplete
    /\ viewsDone' = viewsDone \cup {curView}
    /\ curView' = NoView
    /\ executed' = <<>>
    /\ cmds' = <<>>
    /\ lastRun' = None
    /\ mainTexture' = 0
    /\ UNCHANGED <<stage, dynIndex, viewOffset, skipped>>
    /\ UNCHANGED <<phase, panicked, appVars, resVars, readyVars>>

Next ==
    \/ \E U \in UTypes, label \in Labels, args \in CtorArgs : AddPlugin(U, label, args)
    \/ Run
    \/ Finish
    \/ StartRendering
    \/ \E id \in 1..MaxPlugins : ProcessPipelineQueue(id)
    \/ \E U \in UTypes : PrepareUniformComponents(U)
    \/ PrepareViewUniforms
    \/ NextFrame
    \/ \E v \in Views : StartView(v)
    \/ \E n \in HostNodes : RunHostNode(n)
    \/ \E l \in Labels : RunPluginNode(l)
    \/ FinishView

Spec == Init /\ [][Next]_vars

(***************************************************************************)
(* Properties                                                              *)
(***************************************************************************)
\* The run just executed, when there is one.
LR == lastRun[1]

Ran == lastRun # None

Drew == Ran /\ LR.path = "draw" /\ LR.result = "Ok"

AllReady(r) == r.pipelineReady /\ r.settingsReady /\ r.viewReady

\* The commands of one kind in a sequence of commands.
CmdsOf(seq, op) == { i \in 1..Len(seq) : seq[i].op = op }

\* The entries of the view's log recorded by node l, of one kind.
LogOf(l, op) == { i \in 1..Len(cmds) : cmds[i].node = l /\ cmds[i].cmd.op = op }

Pos(seq, x) == CHOOSE i \in 1..Len(seq) : seq[i] = x

\* C1: a run executed while the pipeline cache does not hold the compiled
\* pipeline of the plugin's pipeline_id records zero GPU commands (no bind
\* group, no render pass, no draw), does not panic and returns Ok.
C1_NotCompiledIsNoOp ==
    (Ran /\ ~LR.pipelineReady) =>
        /\ LR.cmds = <<>>
        /\ LR.result = "Ok"
        /\ panicked = NoPanic
        /\ LogOf(LR.label, "create_bind_group") = {}
        /\ LogOf(LR.label, "begin_render_pass") = {}
        /\ LogOf(LR.label, "draw") = {}

\* The pipeline is the only thing missing: both uniform buffers have bindings.
C1_Witness == Ran /\ ~LR.pipelineReady /\ LR.settingsReady /\ LR.viewReady

\* What a drawing run does to the view's textures: the destination it was
\* given is the view's main texture afterwards, the bind group reads the
\* texture that was the main texture before, the pass writes the destination.
DrawPingPong ==
    /\ LR.postMain = LR.preDest
    /\ LR.postMain # LR.preMain
    /\ \A i \in CmdsOf(LR.cmds, "create_bind_group") : LR.cmds[i].entries[1] = LR.preMain
    /\ \A i \in CmdsOf(LR.cmds, "begin_render_pass") : LR.cmds[i].view = LR.preDest
    /\ CmdsOf(LR.cmds, "create_bind_group") # {}
    /\ CmdsOf(LR.cmds, "begin_render_pass") # {}

\* This run's source and destination are the previous drawing run's
\* destination and source.
RolesExchanged ==
    /\ LR.preMain = LR.prev[1].destination
    /\ LR.preDest = LR.prev[1].source

C3_OwnDynamicOffsets ==
    Drew =>
        LET U == LR.key[1]
            v == LR.view
        IN /\ CmdsOf(LR.cmds, "set_bind_group") # {}
           /\ \A i \in CmdsOf(LR.cmds, "set_bind_group") :
                 /\ LR.cmds[i].offsets = <<dynIndex[v][U][1], viewOffset[v][1]>>
                 /\ \A w \in Views \ {v} :
                       /\ viewOffset[w][1] # LR.cmds[i].offsets[2]
                       /\ U \in SettingsOf(w) => dynIndex[w][U][1] # LR.cmds[i].offsets[1]

\* Two cameras carry U1 and the first camera's settings sit in the second
\* slot of this frame's uniform buffer: the draw for it has run.
C3_Witness ==
    /\ Drew
    /\ LR.key[1] = "U1"
    /\ LR.view = "v1"
    /\ dynIndex["v1"]["U1"] = Some(1)
    /\ dynIndex["v2"]["U1"] = Some(0)

\* The pipeline descriptor queued for the plugin instance s.
BuiltFrom(pp, s) ==
    /\ pp.layout.label = s.bind_group_layout_label
    /\ pp.pipeline_id \in 1..Len(pipelineCache)
    /\ pipelineCache[pp.pipeline_id].label = s.debug_label
    /\ pipelineCache[pp.pipeline_id].vertex = s.vertex_state
    /\ pipelineCache[pp.pipeline_id].fragment.shader.asset = s.shader_path
    /\ pipelineCache[pp.pipeline_id].layout = <<pp.layout>>

\* C4: registering PostProcessPlugin twice with distinct labels gives two
\* independent graph nodes with independent pipeline state: nothing panics,
\* and once the app renders each node finds the settings, pipeline, layout
\* and sampler of its own instance, in resources the other does not use.
C4_TwoInstancesIndependent ==
    \A i, j \in 1..Len(plugins) :
        (i < j /\ plugins[i].label # plugins[j].label) =>
            /\ panicked = NoPanic
            /\ (phase = "render" /\ renderApp) =>
                  /\ ResKey(plugins[i]) # ResKey(plugins[j])
                  /\ \A k \in {i, j} :
                        /\ graphNodes[plugins[k].label] = ResKey(plugins[k])
                        /\ resSettings[ResKey(plugins[k])] = Some(plugins[k])
                        /\ resPipeline[ResKey(plugins[k])] # None
                        /\ BuiltFrom(resPipeline[ResKey(plugins[k])][1], plugins[k])
                  /\ resPipeline[ResKey(plugins[i])][1].pipeline_id
                        # resPipeline[ResKey(plugins[j])][1].pipeline_id
                  /\ resPipeline[ResKey(plugins[i])][1].layout.id
                        # resPipeline[ResKey(plugins[j])][1].layout.id
                  /\ resPipeline[ResKey(plugins[i])][1].sampler.id
                        # resPipeline[ResKey(plugins[j])][1].sampler.id

\* The pipeline resources that exist.
PipelineKeys == { k \in ResKeys : resPipeline[k] # None }

\* C5: the pipeline handle, bind group layout and sampler of a plugin instance
\* are created exactly once, in finish, which queues exactly one render
\* pipeline, and are never recreated or changed afterwards: no step, and in
\* particular no run of the node, queues another pipeline or replaces
\* pipeline_id, layout or sampler.
C5_PipelineCreatedOnce ==
    [][ /\ \A k \in ResKeys : resPipeline[k] # None => resPipeline'[k] = resPipeline[k]
        /\ Len(pipelineCache') = Cardinality(PipelineKeys')
        /\ Len(layouts') = Cardinality(PipelineKeys')
        /\ samplers' = Cardinality(PipelineKeys')
        /\ pipelineCache' # pipelineCache =>
              /\ finished' = finished + 1
              /\ Len(pipelineCache') = Len(pipelineCache) + 1
        /\ phase = "render" => /\ pipelineCache' = pipelineCache
                               /\ resPipeline' = resPipeline
                               /\ layouts' = layouts
                               /\ samplers' = samplers ]_vars

\* Two pipelines exist and a node that skipped in an earlier frame has drawn.
C5_Witness ==
    /\ Cardinality(PipelineKeys) = 2
    /\ Len(pipelineCache) = 2
    /\ Drew
    /\ LR.hadSkipped

\* The labels whose node build has added to the graph.
PluginLabels == { l \in Labels : graphNodes[l] # None }

\* C6: for every view the plugin's node runs strictly after EndMainPass and
\* strictly before EndMainPassPostProcessing, and the two edges that say so
\* are the only ordering the plugin adds to the graph.
C6_BetweenMainPassAndPostProcessing ==
    /\ graphEdges \ HostEdges =
          UNION { { <<"EndMainPass", l>>, <<l, "EndMainPassPostProcessing">> } :
                  l \in PluginLabels }
    /\ \A l \in PluginLabels :
          /\ l \in Range(executed) =>
                /\ "EndMainPass" \in Range(executed)
                /\ Pos(executed, "EndMainPass") < Pos(executed, l)
          /\ "EndMainPassPostProcessing" \in Range(executed) =>
                /\ l \in Range(executed)
                /\ Pos(executed, l) < Pos(executed, "EndMainPassPostProcessing")

\* The graph of a view has run to its end with a plugin node in it, the
\* host's post-processing node having run before the plugin's.
C6_Witness ==
    /\ curView # NoView
    /\ ViewComplete
    /\ \E l \in PluginLabels : Pos(executed, "Tonemapping") < Pos(executed, l)

\* Node l is ready in this frame: its pipeline is compiled and both uniform
\* buffers have bindings.
NodeReady(l) ==
    /\ resPipeline[graphNodes[l]] # None
    /\ resPipeline[graphNodes[l]][1].pipeline_id \in compiled
    /\ settingsBinding[graphNodes[l][1]]
    /\ viewBinding

\* C7: in every frame in which pipeline, settings binding and view binding
\* are all available, the node records for every matching view exactly one
\* render pass holding exactly one draw of 3 vertices and 1 instance, however
\* many earlier frames it skipped.
C7_OnePassPerViewOnceReady ==
    \A l \in PluginLabels :
        (curView # NoView /\ l \in Range(executed) /\ NodeReady(l)
            /\ graphNodes[l][1] \in SettingsOf(curView)) =>
            /\ Cardinality(LogOf(l, "begin_render_pass")) = 1
            /\ Cardinality(LogOf(l, "draw")) = 1
            /\ \A p \in LogOf(l, "begin_render_pass") : \A d \in LogOf(l, "draw") :
                  /\ p < d
                  /\ cmds[d].cmd.vertices = <<0, 3>>
                  /\ cmds[d].cmd.instances = <<0, 1>>
                  /\ \A k \in p..d : cmds[k].node = l

\* A node that skipped in an earlier frame has drawn in this one.
C7_Witness ==
    /\ Drew
    /\ LR.hadSkipped
    /\ NodeReady(LR.label)
    /\ Cardinality(LogOf(LR.label, "draw")) = 1

\* C8: run never panics and never returns an error; with the pipeline
\* compiled but no settings binding, or with the settings binding but no view
\* binding, the run is a skip (zero commands, Ok); and whenever the node can
\* run, the PostProcessPluginSettings and PostProcessPipeline resources it
\* looks up exist.
C8_RunNeverFails ==
    /\ panicked # "panic in run"
    /\ Ran =>
          /\ LR.result = "Ok"
          /\ (LR.pipelineReady /\ ~LR.settingsReady) =>
                (LR.path = "skip" /\ LR.cmds = <<>>)
          /\ (LR.pipelineReady /\ LR.settingsReady /\ ~LR.viewReady) =>
                (LR.path = "skip" /\ LR.cmds = <<>>)
    /\ phase = "render" =>
          \A l \in PluginLabels : /\ resSettings[graphNodes[l]] # None
                                  /\ resPipeline[graphNodes[l]] # None

\* The pipeline is compiled, the settings buffer is bound, the view buffer
\* is not.
C8_Witness == Ran /\ LR.pipelineReady /\ LR.settingsReady /\ ~LR.viewReady

\* C9, as stated: build or finish running on an app without the RenderApp
\* sub-app surfaces as a panic.
C9_AsStated ==
    (~renderApp /\ Len(plugins) > 0) => panicked # NoPanic

\* C9, amended: the plugin handles a missing render sub-app itself, by an
\* early return: build still adds the extraction and uniform plugins but no
\* graph node and no edge, finish inserts no resource and queues no pipeline,
\* and nothing panics on account of the missing sub-app.
C9_MissingSubAppIsSilent ==
    ~renderApp =>
        /\ panicked \in {NoPanic, "duplicate plugin"}
        /\ PluginLabels = {}
        /\ graphEdges = HostEdges
        /\ \A k \in ResKeys : resSettings[k] = None /\ resPipeline[k] = None
        /\ pipelineCache = <<>>
        /\ layouts = <<>>
        /\ samplers = 0
        /\ panicked = NoPanic =>
              \A i \in 1..Len(plugins) :
                  /\ <<"ExtractComponentPlugin", plugins[i].U, "-">> \in mainPlugins
                  /\ <<"UniformComponentPlugin", plugins[i].U, "-">> \in mainPlugins

\* build and finish of a plugin have both run on an app without RenderApp.
C9_Witness == ~renderApp /\ finished >= 1 /\ panicked = NoPanic

\* C10: the node flips the view's main texture only in a run that records a
\* render pass writing to the destination; a run that skips leaves the
\* current texture as it was; and a view without the Settings component is
\* never touched. Every flip of the view's main texture is therefore a
\* post-process write of the host or a recorded pass of a node whose
\* settings the view carries.
C10_FlipOnlyWithWrite ==
    /\ Ran =>
          /\ LR.key[1] \in SettingsOf(LR.view)
          /\ LR.postMain # LR.preMain =>
                \E i \in CmdsOf(LR.cmds, "begin_render_pass") : LR.cmds[i].view = LR.postMain
          /\ ~AllReady(LR) => (LR.postMain = LR.preMain /\ LR.cmds = <<>>)
    /\ \A i \in 1..Len(cmds) :
          cmds[i].node \in PluginLabels =>
              graphNodes[cmds[i].node][1] \in SettingsOf(curView)
    /\ mainTexture =
          Cardinality({ i \in 1..Len(cmds) :
                          cmds[i].cmd.op \in {"post_process_write", "begin_render_pass"} }) % 2

\* On the camera without U2 the node of the U2 plugin has been passed over,
\* and the node of the U1 plugin has just skipped.
C10_Witness ==
    /\ Ran
    /\ LR.path = "skip"
    /\ LR.view = "v1"
    /\ \E l \in PluginLabels : l \in Range(executed) /\ graphNodes[l][1] = "U2"

====
